---- MODULE Spec2Model ----
(***************************************************************************)
(* Model of the command-tree interpreter of src/src/cmd.c: parse_command,  *)
(* parse_simple, run_in_parallel, run_on_pipe, shell_cd, shell_exit and    *)
(* doRedirection, together with the processes they fork and wait for.      *)
(*                                                                         *)
(* Every process carries its own call stack of parse_command frames, its   *)
(* working directory and its environment (copied at fork).  One action is  *)
(* one stretch of code between two points where the process can be        *)
(* observed by another one: a fork, a wait, a process termination.         *)
(***************************************************************************)
EXTENDS Integers, Sequences, FiniteSets, TLC

VARIABLES tree, procs

vars == <<tree, procs>>

(***************************************************************************)
(* Bounds of the model.                                                    *)
(***************************************************************************)
\* size of the process table: pids 0 .. MaxProcs-1, pid 0 is the shell
MaxProcs == 5
\* an external program exits with a code in 0 .. MaxExitCode
MaxExitCode == 2
\* the number of processes a signal ends in one run
MaxSignals == 1

(***************************************************************************)
(* Words, simple commands and command trees (the parser's output).         *)
(***************************************************************************)
\* a word_t chain linked by next_part: a sequence of segments
Seg(s) == [string |-> s, expand |-> FALSE]
Var(s) == [string |-> s, expand |-> TRUE]
Word(s) == <<Seg(s)>>

\* a NULL word_t pointer (s->in, s->out, s->err, s->params)
NoWord == <<>>

\* io_flags of a simple command
IO_REGULAR == "IO_REGULAR"
IO_OUT_APPEND == "IO_OUT_APPEND"
IO_ERR_APPEND == "IO_ERR_APPEND"

\* simple_command_t: params is the next_word list, each entry a next_part chain
SCmd(verb, params, in, out, err, flags) ==
    [verb |-> verb, params |-> params, in |-> in, out |-> out, err |-> err,
     io_flags |-> flags]

Cmd(verb, params) == SCmd(verb, params, NoWord, NoWord, NoWord, IO_REGULAR)

NoCmd == Cmd(NoWord, <<>>)

\* command_t
Leaf(s) == [op |-> "OP_NONE", scmd |-> s, cmd1 |-> <<>>, cmd2 |-> <<>>]
Node(op, c1, c2) == [op |-> op, scmd |-> NoCmd, cmd1 |-> <<c1>>, cmd2 |-> <<c2>>]

Ops == {"OP_SEQUENTIAL", "OP_PARALLEL", "OP_CONDITIONAL_NZERO",
        "OP_CONDITIONAL_ZERO", "OP_PIPE"}

\* the node of tree t at the end of path (1 = cmd1, 2 = cmd2)
RECURSIVE Sub(_, _)
Sub(t, path) ==
    IF path = <<>> THEN t
    ELSE Sub(IF Head(path) = 1 THEN t.cmd1[1] ELSE t.cmd2[1], Tail(path))

\* all paths of tree t
RECURSIVE Paths(_)
Paths(t) ==
    IF t.op = "OP_NONE" THEN {<<>>}
    ELSE {<<>>} \cup {<<1>> \o p : p \in Paths(t.cmd1[1])}
                \cup {<<2>> \o p : p \in Paths(t.cmd2[1])}

(***************************************************************************)
(* The file system and the programs on the search path.                    *)
(***************************************************************************)
\* directories chdir accepts
Dirs == {"/a", "/b", "/deep"}
\* the directory whose path does not fit the 1024-byte buffer of getcwd
LongDirs == {"/deep"}
\* the files open(O_RDONLY) finds, as <<directory, name>>
Files == {<<"/a", <<"in.txt">>>>}
\* the names open(O_WRONLY | O_CREAT) cannot open in any directory
Unwritable == {<<"sub">>}
\* the programs execvp finds
Programs == {"prog", "cat"}
\* the programs that read their standard input to its end before they exit
Readers == {"cat"}
\* the signals that end a process
Signals == {9}

\* environment variables, and the environment the shell starts with
VarNames == {"X"}
InitEnv == [v \in VarNames |-> <<>>]
InitCwd == "/a"

(***************************************************************************)
(* Wait statuses, as waitpid reports them and the W* macros read them.     *)
(***************************************************************************)
\* the status word of a terminated process
WaitStatus(pr) ==
    IF pr.state = "exited" THEN pr.code * 256 ELSE pr.sig

WEXITSTATUS(status) == (status \div 256) % 256

WIFEXITED(status) == (status % 128) = 0

\* exit(n): the low eight bits of n are the exit code
ExitCode(n) == n % 256

\* a C int converted to bool
ToBool(n) == IF n # 0 THEN 1 ELSE 0

(***************************************************************************)
(* get_word: the string a next_part chain resolves to (a string is the     *)
(* sequence of its pieces, concatenation is \o).                           *)
(***************************************************************************)
RECURSIVE get_word(_, _)
get_word(w, env) ==
    IF w = <<>> THEN <<>>
    ELSE (IF Head(w).expand
          THEN (IF Head(w).string \in DOMAIN env THEN env[Head(w).string] ELSE <<>>)
          ELSE <<Head(w).string>>)
         \o get_word(Tail(w), env)

(***************************************************************************)
(* Descriptor tables.  A table is the sequence of what descriptors 0, 1,   *)
(* 2, ... refer to; it ends with its highest open descriptor.              *)
(***************************************************************************)
Closed == [kind |-> "closed", of |-> <<>>, mode |-> ""]
\* what the shell is started with as its standard stream named stream
Tty(stream) == [kind |-> "tty", of |-> <<stream>>, mode |-> "rw"]
\* the file name of directory dir, opened with flags
File(dir, name, flags) == [kind |-> "file", of |-> <<dir, name>>, mode |-> flags]
\* an end ("r" or "w") of the pipe run_on_pipe made for the node at path
PipeEnd(path, end) == [kind |-> "pipe", of |-> path, mode |-> end]

STDIN_FILENO == 0
STDOUT_FILENO == 1
STDERR_FILENO == 2

InitFds == <<Tty("stdin"), Tty("stdout"), Tty("stderr")>>

\* In the operators below t names the value of the table passed as fds: it
\* is bound once, so that compositions such as dup(dup(dup(fds, 1), 0), 2)
\* evaluate each table once.

\* what descriptor fd of table fds refers to
Desc(fds, fd) ==
    CHOOSE d \in {IF fd + 1 \in DOMAIN t THEN t[fd + 1] ELSE Closed : t \in {fds}} : TRUE

\* the open descriptors of a table
OpenFds(fds) ==
    UNION {{fd \in 0 .. (Len(t) - 1) : t[fd + 1] # Closed} : t \in {fds}}

\* the lowest descriptor that is not open: the one open, dup and pipe return
LowestFree(fds) ==
    CHOOSE n \in
        {IF \E fd \in 0 .. (Len(t) - 1) : t[fd + 1] = Closed
         THEN CHOOSE fd \in 0 .. (Len(t) - 1) :
                 /\ t[fd + 1] = Closed
                 /\ \A g \in 0 .. (fd - 1) : t[g + 1] # Closed
         ELSE Len(t) : t \in {fds}} : TRUE

\* descriptor fd is made to refer to d
Install(fds, fd, d) ==
    CHOOSE r \in
        {IF n + 1 \in DOMAIN t THEN [t EXCEPT ![n + 1] = d]
         ELSE t \o [i \in 1 .. (n - Len(t)) |-> Closed] \o <<d>> :
            t \in {fds}, n \in {fd}} : TRUE

\* a table without the closed descriptors at its end
RECURSIVE Trim(_)
Trim(fds) ==
    CHOOSE r \in
        {IF t # <<>> /\ t[Len(t)] = Closed
         THEN Trim(SubSeq(t, 1, Len(t) - 1)) ELSE t : t \in {fds}} : TRUE

\* close(fd)
close(fds, fd) ==
    CHOOSE r \in
        {IF fd + 1 \in DOMAIN t THEN Trim([t EXCEPT ![fd + 1] = Closed]) ELSE t :
            t \in {fds}} : TRUE

\* dup(fd): the table afterwards; the value returned is LowestFree(fds)
dup(fds, fd) ==
    CHOOSE r \in {Install(t, LowestFree(t), Desc(t, fd)) : t \in {fds}} : TRUE

\* dup2(oldfd, newfd)
dup2(fds, oldfd, newfd) ==
    CHOOSE r \in
        {IF Desc(t, oldfd) = Closed THEN t ELSE Install(t, newfd, Desc(t, oldfd)) :
            t \in {fds}} : TRUE

\* fd = open(...) giving d; dup2(fd, target); close(fd)
OpenOnto(fds, d, target) ==
    CHOOSE r \in
        {close(dup2(Install(t, LowestFree(t), d), LowestFree(t), target),
               LowestFree(t)) : t \in {fds}} : TRUE

(***************************************************************************)
(* doRedirection: the open calls it makes, in order.                       *)
(***************************************************************************)
\* the path built for target word w: cwd/string for cd, the raw string
\* otherwise ("." stands for a path relative to the process's directory)
RedirPath(w, execute_cd, cwd, env) ==
    [dir |-> IF execute_cd THEN cwd ELSE ".",
     name |-> <<Head(w).string>> \o get_word(Tail(w), env)]

\* the stdout target is appended to unless io_flags says so
OutFlags_Mutant(io_flags) ==
    IF io_flags = IO_REGULAR THEN "O_APPEND"
    ELSE IF io_flags = IO_OUT_APPEND THEN "O_TRUNC" ELSE "none"

\* the flags of the open of the stdout target when only out or only err
\* decides ("none": no open is made and fd stays -1)
OutFlags(io_flags) ==
    IF io_flags = IO_REGULAR THEN "O_TRUNC"
    ELSE IF io_flags = IO_OUT_APPEND THEN "O_APPEND" ELSE "none"

ErrFlags(io_flags) ==
    IF io_flags = IO_REGULAR THEN "O_TRUNC"
    ELSE IF io_flags = IO_ERR_APPEND THEN "O_APPEND" ELSE "none"

RedirOpens(s, execute_cd, cwd, env) ==
    (IF s.in # NoWord
     THEN <<[fd |-> 0, path |-> RedirPath(s.in, execute_cd, cwd, env),
             flags |-> "O_RDONLY"]>>
     ELSE <<>>)
    \o
    (IF s.out # NoWord /\ s.err # NoWord
     THEN <<[fd |-> 1, path |-> RedirPath(s.out, execute_cd, cwd, env),
             flags |-> "O_APPEND"],
            [fd |-> 2, path |-> RedirPath(s.err, execute_cd, cwd, env),
             flags |-> "O_TRUNC"]>>
     ELSE (IF s.out # NoWord
           THEN <<[fd |-> 1, path |-> RedirPath(s.out, execute_cd, cwd, env),
                   flags |-> OutFlags(s.io_flags)]>>
           ELSE <<>>)
          \o
          (IF s.err # NoWord
           THEN <<[fd |-> 2, path |-> RedirPath(s.err, execute_cd, cwd, env),
                   flags |-> ErrFlags(s.io_flags)]>>
           ELSE <<>>))

\* whether open gives a descriptor, in a process whose directory is pcwd
OpenOK(o, pcwd) ==
    /\ o.flags # "none"
    /\ o.flags = "O_RDONLY" =>
          <<IF o.path.dir = "." THEN pcwd ELSE o.path.dir, o.path.name>> \in Files
    /\ o.flags # "O_RDONLY" => o.path.name \notin Unwritable

\* the file an open of doRedirection gives, in a process whose directory is
\* pcwd
Opened(o, pcwd) ==
    File(IF o.path.dir = "." THEN pcwd ELSE o.path.dir, o.path.name, o.flags)

\* the files doRedirection opens, in order
OpenLog(opens, pcwd) == [i \in DOMAIN opens |-> Opened(opens[i], pcwd)]

\* the table after doRedirection made the opens, every one succeeding: each
\* file is opened, duplicated onto its standard descriptor and closed
RECURSIVE Redirect(_, _, _)
Redirect(fds, opens, pcwd) ==
    CHOOSE r \in
        {IF opens = <<>> THEN t
         ELSE Redirect(OpenOnto(t, Opened(Head(opens), pcwd), Head(opens).fd),
                       Tail(opens), pcwd) : t \in {fds}} : TRUE

\* orig_stdout = dup(STDOUT_FILENO); orig_stdin = dup(STDIN_FILENO);
\* orig_stderr = dup(STDERR_FILENO): the descriptors returned, in this order
SavedFds(fds) ==
    CHOOSE r \in
        {<<LowestFree(t),
           LowestFree(dup(t, STDOUT_FILENO)),
           LowestFree(dup(dup(t, STDOUT_FILENO), STDIN_FILENO))>> : t \in {fds}} : TRUE

SaveStd(fds) == dup(dup(dup(fds, STDOUT_FILENO), STDIN_FILENO), STDERR_FILENO)

\* dup2(orig_stdout, STDOUT_FILENO); dup2(orig_stdin, STDIN_FILENO);
\* dup2(orig_stderr, STDERR_FILENO); close of the three
RestoreStd(fds, saved) ==
    close(close(close(
        dup2(dup2(dup2(fds, saved[1], STDOUT_FILENO), saved[2], STDIN_FILENO),
             saved[3], STDERR_FILENO),
        saved[1]), saved[2]), saved[3])

\* doRedirection reaches a DIE
RedirDies(s, execute_cd, cwd, env, pcwd) ==
    \E i \in DOMAIN RedirOpens(s, execute_cd, cwd, env) :
        ~OpenOK(RedirOpens(s, execute_cd, cwd, env)[i], pcwd)

(***************************************************************************)
(* Processes.                                                              *)
(***************************************************************************)
Pids == 0 .. (MaxProcs - 1)
ShellPid == 0
NoPid == 0 - 1
\* no value has been returned to the frame on top of the stack
NoRet == 0 - 1

\* a parse_command activation on the node at path; result starts true
Frame(path, pc) ==
    [path |-> path, pc |-> pc, result |-> 1,
     pidFirst |-> NoPid, pidSecond |-> NoPid, status1 |-> 0,
     saved |-> <<>>, fd |-> <<>>, entry |-> <<>>]

\* what a process did, in order: "call" when parse_command is entered on a
\* node, "ret" when it returns val; kids are the pids the node forked
Event(ev, path, val, kids) == [ev |-> ev, path |-> path, val |-> val, kids |-> kids]

Unused ==
    [state |-> "unused", waited |-> FALSE, ppid |-> NoPid, code |-> 0, sig |-> 0,
     at |-> "", cwd |-> InitCwd, env |-> InitEnv,
     stack |-> <<>>, ret |-> NoRet, trace |-> <<>>,
     fds |-> <<>>, io |-> <<>>, image |-> ""]

Dead == {"exited", "signaled"}
Alive == {"running", "program"}

\* the process ends through exit(n) at the place named at
Exit(ps, p, n, at, tr) ==
    [ps EXCEPT ![p] = [@ EXCEPT !.state = "exited", !.code = ExitCode(n), !.at = at,
                                !.stack = <<>>, !.ret = NoRet, !.trace = tr]]

\* the top frame returns v to its caller.  The frame under the subtree of a
\* forked child is the child's "exit(status)", which follows the return
\* with nothing in between.
Return(ps, p, v, kids) ==
    LET pr == ps[p]
        top == pr.stack[Len(pr.stack)]
        tr == Append(pr.trace, Event("ret", top.path, v, kids))
    IN IF Len(pr.stack) = 2 /\ pr.stack[1].pc = "child_exit"
       THEN Exit(ps, p, v, "child_exit", tr)
       ELSE [ps EXCEPT ![p] = [@ EXCEPT !.stack = SubSeq(pr.stack, 1, Len(pr.stack) - 1),
                                        !.ret = v, !.trace = tr]]

ForkFailed_Mutant(ps, p, kids) == Return(ps, p, 1, kids)

\* fork() returned -1: "return false", with kids the children forked so far
ForkFailed(ps, p, kids) == Return(ps, p, 0, kids)

\* the top frame moves to pc and calls parse_command on the node at path
Call(pr, pc, path) ==
    [pr EXCEPT !.stack = SubSeq(pr.stack, 1, Len(pr.stack) - 1)
                         \o <<[pr.stack[Len(pr.stack)] EXCEPT !.pc = pc],
                              Frame(path, "start")>>,
               !.ret = NoRet,
               !.trace = Append(pr.trace, Event("call", path, NoRet, <<>>))]

\* fork can create a process
CanFork(ps) == \E c \in Pids : ps[c].state = "unused"
NewPid(ps) == CHOOSE c \in Pids : ps[c].state = "unused" /\
                                  \A d \in Pids : ps[d].state = "unused" => c <= d

\* the child of fork: a copy of the parent's directory, environment and
\* descriptor table
Child(pr, p, stack, trace) ==
    [Unused EXCEPT !.state = "running", !.ppid = p, !.cwd = pr.cwd, !.env = pr.env,
                   !.stack = stack, !.trace = trace, !.fds = pr.fds]

\* the child run_in_parallel and run_on_pipe fork for the subtree at path
SubtreeChild(pr, p, path) ==
    Child(pr, p, <<Frame(path, "child_exit"), Frame(path, "start")>>,
          <<Event("call", path, NoRet, <<>>)>>)

Top(p) == procs[p].stack[Len(procs[p].stack)]
NodeAt(p) == Sub(tree, Top(p).path)

\* process p is in parse_command at pc
At(p, pc) ==
    /\ procs[p].state = "running"
    /\ procs[p].stack # <<>>
    /\ Top(p).pc = pc

\* the callee of the top frame has returned
Returned(p, pc) == At(p, pc) /\ procs[p].ret # NoRet

SetTop(pr, f) ==
    [pr EXCEPT !.stack = SubSeq(pr.stack, 1, Len(pr.stack) - 1) \o <<f>>]

(***************************************************************************)
(* parse_simple                                                            *)
(***************************************************************************)
\* EXIT_FAILURE, the code DIE exits with
DieCode == 1

\* which branch of parse_simple a simple command takes, in the order the
\* code tests them
Classify(s) ==
    LET v == Head(s.verb).string
    IN IF v = "cd" THEN "cd"
       ELSE IF v = "exit" \/ v = "quit" THEN "exit"
       ELSE IF v = "false" THEN "false"
       ELSE IF v = "true" THEN "true"
       ELSE IF Len(s.verb) > 1 THEN "assign"
       ELSE "external"

\* getcwd(cwd, sizeof(cwd)) == NULL
GetcwdFails(dir) == dir \in LongDirs

\* parse_simple is entered, got the working directory and takes branch kind
Simple(p, kind) ==
    /\ At(p, "start")
    /\ NodeAt(p).op = "OP_NONE"
    /\ ~GetcwdFails(procs[p].cwd)
    /\ Classify(NodeAt(p).scmd) = kind

\* s->params == NULL || s->params->next_part != NULL
CdArgsBad(s) == IF s.params = <<>> THEN TRUE ELSE Len(Head(s.params)) > 1

\* shell_cd: chdir(dir->string) == 0
shell_cd(dir) == Head(dir).string \in Dirs

\* the outcome parse_simple makes of the status of the child it waited for
SimpleResult(status) == IF WEXITSTATUS(status) = 1 THEN 0 ELSE 1

ParseSimpleNoCwd(p) ==
    /\ At(p, "start")
    /\ NodeAt(p).op = "OP_NONE"
    /\ GetcwdFails(procs[p].cwd)
    /\ procs' = Return(procs, p, 0, <<>>)
    /\ UNCHANGED tree

CdBadArgs(p) ==
    /\ Simple(p, "cd")
    /\ CdArgsBad(NodeAt(p).scmd)
    /\ procs' = Return(procs, p, 0, <<>>)
    /\ UNCHANGED tree

CdRedirDies(p) ==
    /\ Simple(p, "cd")
    /\ ~CdArgsBad(NodeAt(p).scmd)
    /\ RedirDies(NodeAt(p).scmd, TRUE, procs[p].cwd, procs[p].env, procs[p].cwd)
    /\ procs' = Exit(procs, p, DieCode, "DIE", procs[p].trace)
    /\ UNCHANGED tree

\* the chdir call, as the log of a process records it
Chdir(dir) == [kind |-> "chdir", of |-> dir, mode |-> ""]

\* a working directory that the two sides of a fork share
chdir_Mutant(ps, p, dir) ==
    [q \in Pids |-> IF q = p \/ q = ps[p].ppid THEN [ps[q] EXCEPT !.cwd = dir]
                    ELSE ps[q]]

\* chdir(dir) changes the working directory of the calling process
chdir(ps, p, dir) == [ps EXCEPT ![p].cwd = dir]

Cd(p) ==
    /\ Simple(p, "cd")
    /\ ~CdArgsBad(NodeAt(p).scmd)
    /\ ~RedirDies(NodeAt(p).scmd, TRUE, procs[p].cwd, procs[p].env, procs[p].cwd)
    /\ LET s == NodeAt(p).scmd
           pr == procs[p]
           opens == RedirOpens(s, TRUE, pr.cwd, pr.env)
           redirected == Redirect(SaveStd(pr.fds), opens, pr.cwd)
           restored == RestoreStd(redirected, SavedFds(pr.fds))
           dir == Head(s.params)
           ok == shell_cd(dir)
           done == [procs EXCEPT ![p].fds = restored,
                                 ![p].io = @ \o OpenLog(opens, pr.cwd)
                                             \o <<Chdir(Head(dir).string)>>]
           moved == IF ok THEN chdir(done, p, Head(dir).string) ELSE done
       IN procs' = Return(moved, p, IF ok THEN 1 ELSE 0, <<>>)
    /\ UNCHANGED tree

shell_exit_Mutant(ps, p) == Return(ps, p, 0, <<>>)

\* shell_exit: exit(0); the return after it is never reached
shell_exit(ps, p) == Exit(ps, p, 0, "shell_exit", ps[p].trace)

ShellExit(p) ==
    /\ Simple(p, "exit")
    /\ procs' = shell_exit(procs, p)
    /\ UNCHANGED tree

False(p) ==
    /\ Simple(p, "false")
    /\ procs' = Return(procs, p, 0, <<>>)
    /\ UNCHANGED tree

True(p) ==
    /\ Simple(p, "true")
    /\ procs' = Return(procs, p, 1, <<>>)
    /\ UNCHANGED tree

\* setenv(name, value, 0): a variable that is set keeps its value
setenv_Mutant(env, name, value) ==
    [v \in DOMAIN env \cup {name} |-> IF v \in DOMAIN env THEN env[v] ELSE value]

\* setenv(name, value, 1)
setenv(env, name, value) ==
    [v \in DOMAIN env \cup {name} |-> IF v = name THEN value ELSE env[v]]

\* setenv(verb->string, get_word(verb->next_part->next_part), 1)
SetVar(p) ==
    /\ Simple(p, "assign")
    /\ LET verb == NodeAt(p).scmd.verb
           value == get_word(SubSeq(verb, 3, Len(verb)), procs[p].env)
           set == [procs EXCEPT ![p].env = setenv(@, Head(verb).string, value)]
       IN procs' = Return(set, p, 1, <<>>)
    /\ UNCHANGED tree

SimpleFork(p) ==
    /\ Simple(p, "external")
    /\ CanFork(procs)
    /\ LET c == NewPid(procs)
       IN procs' = [procs EXCEPT
             ![p] = SetTop(@, [Top(p) EXCEPT !.pc = "simple_wait", !.pidFirst = c]),
             ![c] = Child(procs[p], p, <<Frame(Top(p).path, "exec")>>, <<>>)]
    /\ UNCHANGED tree

SimpleForkFails(p) ==
    /\ Simple(p, "external")
    /\ procs' = ForkFailed(procs, p, <<>>)
    /\ UNCHANGED tree

\* the child: doRedirection, then execvp
ExecRedirDies(c) ==
    /\ At(c, "exec")
    /\ RedirDies(NodeAt(c).scmd, FALSE, procs[c].cwd, procs[c].env, procs[c].cwd)
    /\ procs' = Exit(procs, c, DieCode, "DIE", procs[c].trace)
    /\ UNCHANGED tree

\* execvp(...) == -1: exit(0)
ExecFails(c) ==
    /\ At(c, "exec")
    /\ ~RedirDies(NodeAt(c).scmd, FALSE, procs[c].cwd, procs[c].env, procs[c].cwd)
    /\ Head(NodeAt(c).scmd.verb).string \notin Programs
    /\ procs' = Exit(procs, c, 0, "execvp", procs[c].trace)
    /\ UNCHANGED tree

\* execvp replaces the image: the process is the program from here on
Exec(c) ==
    /\ At(c, "exec")
    /\ ~RedirDies(NodeAt(c).scmd, FALSE, procs[c].cwd, procs[c].env, procs[c].cwd)
    /\ Head(NodeAt(c).scmd.verb).string \in Programs
    /\ LET s == NodeAt(c).scmd
           pr == procs[c]
           opens == RedirOpens(s, FALSE, pr.cwd, pr.env)
       IN procs' = [procs EXCEPT
             ![c].state = "program", ![c].stack = <<>>,
             ![c].image = Head(s.verb).string,
             ![c].fds = Redirect(SaveStd(pr.fds), opens, pr.cwd),
             ![c].io = @ \o OpenLog(opens, pr.cwd)]
    /\ UNCHANGED tree

\* the processes that hold a write end of the pipe of the node at path
Writers(ps, path) ==
    {q \in Pids : /\ ps[q].state \in Alive
                  /\ \E fd \in OpenFds(ps[q].fds) :
                        Desc(ps[q].fds, fd) = PipeEnd(path, "w")}

\* a read of the standard input of process c can return end-of-file: for a
\* pipe, when no process holds a write end of it
EndOfFile(ps, c) ==
    LET in == Desc(ps[c].fds, STDIN_FILENO)
    IN in.kind = "pipe" => Writers(ps, in.of) = {}

\* the program ends with an exit code of its choice; a reader has read its
\* standard input to the end first
ProgramExit(c) ==
    /\ procs[c].state = "program"
    /\ procs[c].image \in Readers => EndOfFile(procs, c)
    /\ \E n \in 0 .. MaxExitCode :
          procs' = Exit(procs, c, n, "program", procs[c].trace)
    /\ UNCHANGED tree

\* a signal ends a forked process, wherever it is
Kill(c) ==
    /\ c # ShellPid
    /\ procs[c].state \in Alive
    /\ Cardinality({q \in Pids : procs[q].state = "signaled"}) < MaxSignals
    /\ \E sig \in Signals :
          procs' = [procs EXCEPT ![c] = [@ EXCEPT !.state = "signaled", !.sig = sig,
                                                  !.at = "signal",
                                                  !.stack = <<>>, !.ret = NoRet]]
    /\ UNCHANGED tree

\* waitpid(pid, &status, 0) in the parent of an external command
SimpleWait(p) ==
    /\ At(p, "simple_wait")
    /\ LET c == Top(p).pidFirst
       IN /\ procs[c].state \in Dead
          /\ procs' = Return([procs EXCEPT ![c].waited = TRUE], p,
                             SimpleResult(WaitStatus(procs[c])), <<c>>)
    /\ UNCHANGED tree

(***************************************************************************)
(* parse_command: OP_SEQUENTIAL, OP_CONDITIONAL_NZERO, OP_CONDITIONAL_ZERO *)
(***************************************************************************)
\* parse_command is entered on a node with operator op
Enter(p, op) == At(p, "start") /\ NodeAt(p).op = op

FirstChild(path) == Append(path, 1)
SecondChild(path) == Append(path, 2)

\* a slip: cmd1 is evaluated again in place of cmd2
SeqSecond_Mutant(path) == FirstChild(path)

\* the node OP_SEQUENTIAL evaluates after cmd1
SeqSecond(path) == SecondChild(path)

\* what OP_SEQUENTIAL returns: result, which no call assigned (r2 is what
\* parse_command(c->cmd2) returned)
SeqResult(result, r2) == result

Seq1(p) ==
    /\ Enter(p, "OP_SEQUENTIAL")
    /\ procs' = [procs EXCEPT ![p] = Call(@, "seq1", FirstChild(Top(p).path))]
    /\ UNCHANGED tree

Seq2(p) ==
    /\ Returned(p, "seq1")
    /\ procs' = [procs EXCEPT ![p] = Call(@, "seq2", SeqSecond(Top(p).path))]
    /\ UNCHANGED tree

SeqReturn(p) ==
    /\ Returned(p, "seq2")
    /\ procs' = Return(procs, p, SeqResult(Top(p).result, procs[p].ret), <<>>)
    /\ UNCHANGED tree

\* a slip: the test of OP_CONDITIONAL_NZERO inverted
NZeroRunsCmd2_Mutant(result) == result = 1

\* the tests that let cmd2 run: result == false, result == true
NZeroRunsCmd2(result) == result = 0
ZeroRunsCmd2(result) == result = 1

NZero1(p) ==
    /\ Enter(p, "OP_CONDITIONAL_NZERO")
    /\ procs' = [procs EXCEPT ![p] = Call(@, "nzero1", FirstChild(Top(p).path))]
    /\ UNCHANGED tree

NZero2(p) ==
    /\ Returned(p, "nzero1")
    /\ NZeroRunsCmd2(procs[p].ret)
    /\ procs' = [procs EXCEPT ![p] =
                    Call(SetTop(@, [Top(p) EXCEPT !.result = procs[p].ret]),
                         "nzero2", SecondChild(Top(p).path))]
    /\ UNCHANGED tree

NZeroSkip(p) ==
    /\ Returned(p, "nzero1")
    /\ ~NZeroRunsCmd2(procs[p].ret)
    /\ procs' = Return(procs, p, procs[p].ret, <<>>)
    /\ UNCHANGED tree

NZeroReturn(p) ==
    /\ Returned(p, "nzero2")
    /\ procs' = Return(procs, p, procs[p].ret, <<>>)
    /\ UNCHANGED tree

Zero1(p) ==
    /\ Enter(p, "OP_CONDITIONAL_ZERO")
    /\ procs' = [procs EXCEPT ![p] = Call(@, "zero1", FirstChild(Top(p).path))]
    /\ UNCHANGED tree

Zero2(p) ==
    /\ Returned(p, "zero1")
    /\ ZeroRunsCmd2(procs[p].ret)
    /\ procs' = [procs EXCEPT ![p] =
                    Call(SetTop(@, [Top(p) EXCEPT !.result = procs[p].ret]),
                         "zero2", SecondChild(Top(p).path))]
    /\ UNCHANGED tree

ZeroSkip(p) ==
    /\ Returned(p, "zero1")
    /\ ~ZeroRunsCmd2(procs[p].ret)
    /\ procs' = Return(procs, p, procs[p].ret, <<>>)
    /\ UNCHANGED tree

ZeroReturn(p) ==
    /\ Returned(p, "zero2")
    /\ procs' = Return(procs, p, procs[p].ret, <<>>)
    /\ UNCHANGED tree

(***************************************************************************)
(* run_in_parallel and run_on_pipe                                         *)
(***************************************************************************)
\* a slip: a wait that does not block (WNOHANG)
Waitable_Mutant(pr) == TRUE

\* waitpid(pid, &status, 0) returns once the child has ended
Waitable(pr) == pr.state \in Dead

\* a slip: the children's exit codes decide
ParallelResult_Mutant(status1, status2) ==
    IF WEXITSTATUS(status1) = 1 /\ WEXITSTATUS(status2) = 1 THEN 1 ELSE 0

\* WIFEXITED(status1) && WIFEXITED(status2)
ParallelResult(status1, status2) ==
    IF WIFEXITED(status1) /\ WIFEXITED(status2) THEN 1 ELSE 0

\* return WEXITSTATUS(status2), from a function that returns bool
PipeResult(status1, status2) == ToBool(WEXITSTATUS(status2))

\* the first fork of either function: wait is the pc after both forks
Fork1(p, op, next) ==
    /\ Enter(p, op)
    /\ CanFork(procs)
    /\ LET c == NewPid(procs)
       IN procs' = [procs EXCEPT
             ![p] = SetTop(@, [Top(p) EXCEPT !.pc = next, !.pidFirst = c]),
             ![c] = SubtreeChild(procs[p], p, FirstChild(Top(p).path))]
    /\ UNCHANGED tree

Fork1Fails(p, op) ==
    /\ Enter(p, op)
    /\ procs' = ForkFailed(procs, p, <<>>)
    /\ UNCHANGED tree

Fork2(p, pc, next) ==
    /\ At(p, pc)
    /\ CanFork(procs)
    /\ LET c == NewPid(procs)
       IN procs' = [procs EXCEPT
             ![p] = SetTop(@, [Top(p) EXCEPT !.pc = next, !.pidSecond = c]),
             ![c] = SubtreeChild(procs[p], p, SecondChild(Top(p).path))]
    /\ UNCHANGED tree

Fork2Fails(p, pc) ==
    /\ At(p, pc)
    /\ procs' = ForkFailed(procs, p, <<Top(p).pidFirst>>)
    /\ UNCHANGED tree

\* waitpid(pidFirst, &status1, 0)
Wait1(p, pc, next) ==
    /\ At(p, pc)
    /\ LET c == Top(p).pidFirst
       IN /\ Waitable(procs[c])
          /\ procs' = [procs EXCEPT
                ![c].waited = TRUE,
                ![p] = SetTop(@, [Top(p) EXCEPT !.pc = next,
                                                !.status1 = WaitStatus(procs[c])])]
    /\ UNCHANGED tree

ParFork1(p) == Fork1(p, "OP_PARALLEL", "par_fork2")
ParFork1Fails(p) == Fork1Fails(p, "OP_PARALLEL")
ParFork2(p) == Fork2(p, "par_fork2", "par_wait1")
ParFork2Fails(p) == Fork2Fails(p, "par_fork2")
ParWait1(p) == Wait1(p, "par_wait1", "par_wait2")

\* waitpid(pidSecond, &status2, 0) and the return of run_in_parallel
ParWait2(p) ==
    /\ At(p, "par_wait2")
    /\ LET c == Top(p).pidSecond
       IN /\ Waitable(procs[c])
          /\ procs' = Return([procs EXCEPT ![c].waited = TRUE], p,
                             ParallelResult(Top(p).status1, WaitStatus(procs[c])),
                             <<Top(p).pidFirst, c>>)
    /\ UNCHANGED tree

\* run_on_pipe up to its first fork: the three dups and pipe(fd), as the
\* table afterwards and the descriptors fd[0] (read) and fd[1] (write)
PipeMade(fds, path) ==
    LET saved == SaveStd(fds)
        rd == LowestFree(saved)
        withRead == Install(saved, rd, PipeEnd(path, "r"))
        wr == LowestFree(withRead)
    IN [fds |-> Install(withRead, wr, PipeEnd(path, "w")), fd |-> <<rd, wr>>]

\* first child: close(fd[0]); dup2(fd[1], STDOUT_FILENO); close(fd[1])
FirstChildFds(fds, fd) == close(dup2(close(fds, fd[1]), fd[2], STDOUT_FILENO), fd[2])

\* second child: close(fd[1]); dup2(fd[0], STDIN_FILENO); close(fd[0])
SecondChildFds(fds, fd) == close(dup2(close(fds, fd[2]), fd[1], STDIN_FILENO), fd[1])

\* the parent closes the read end only
ParentCloses_Mutant(fds, fd) == close(fds, fd[1])

\* parent, after both forks: close(fd[0]); close(fd[1])
ParentCloses(fds, fd) == close(close(fds, fd[1]), fd[2])

\* process p with the locals of run_on_pipe set up, at pc
InPipe(pr, pc, pidFirst) ==
    LET top == pr.stack[Len(pr.stack)]
        made == PipeMade(pr.fds, top.path)
    IN [SetTop(pr, [top EXCEPT !.pc = pc, !.pidFirst = pidFirst,
                               !.saved = SavedFds(pr.fds), !.fd = made.fd,
                               !.entry = pr.fds])
        EXCEPT !.fds = made.fds]

PipeFork1(p) ==
    /\ Enter(p, "OP_PIPE")
    /\ CanFork(procs)
    /\ LET c == NewPid(procs)
           parent == InPipe(procs[p], "pipe_fork2", c)
           child == SubtreeChild(parent, p, FirstChild(Top(p).path))
       IN procs' = [procs EXCEPT
             ![p] = parent,
             ![c] = [child EXCEPT !.fds =
                        FirstChildFds(@, parent.stack[Len(parent.stack)].fd)]]
    /\ UNCHANGED tree

PipeFork1Fails(p) ==
    /\ Enter(p, "OP_PIPE")
    /\ procs' = ForkFailed([procs EXCEPT ![p] = InPipe(@, "pipe_fork2", NoPid)],
                           p, <<>>)
    /\ UNCHANGED tree

PipeFork2(p) ==
    /\ At(p, "pipe_fork2")
    /\ CanFork(procs)
    /\ LET c == NewPid(procs)
           child == SubtreeChild(procs[p], p, SecondChild(Top(p).path))
       IN procs' = [procs EXCEPT
             ![p] = [SetTop(@, [Top(p) EXCEPT !.pc = "pipe_wait1", !.pidSecond = c])
                     EXCEPT !.fds = ParentCloses(@, Top(p).fd)],
             ![c] = [child EXCEPT !.fds = SecondChildFds(@, Top(p).fd)]]
    /\ UNCHANGED tree

PipeFork2Fails(p) == Fork2Fails(p, "pipe_fork2")
PipeWait1(p) == Wait1(p, "pipe_wait1", "pipe_wait2")

\* waitpid(pidSecond, &status2, 0), the restore of the standard descriptors
\* and the return of run_on_pipe
PipeWait2(p) ==
    /\ At(p, "pipe_wait2")
    /\ LET c == Top(p).pidSecond
       IN /\ Waitable(procs[c])
          /\ procs' = Return([procs EXCEPT
                                 ![c].waited = TRUE,
                                 ![p].fds = RestoreStd(@, Top(p).saved)], p,
                             PipeResult(Top(p).status1, WaitStatus(procs[c])),
                             <<Top(p).pidFirst, c>>)
    /\ UNCHANGED tree

(***************************************************************************)
(* The command lines evaluated.                                            *)
(***************************************************************************)
Builtins ==
    {Leaf(Cmd(Word(v), <<>>)) : v \in {"true", "false", "exit", "quit"}}

Externals ==
    {Leaf(Cmd(Word("prog"), <<>>)),
     Leaf(Cmd(Word("nosuch"), <<>>)),
     Leaf(SCmd(Word("prog"), <<>>, Word("in.txt"), NoWord, NoWord, IO_REGULAR)),
     Leaf(SCmd(Word("prog"), <<>>, Word("none.txt"), NoWord, NoWord, IO_REGULAR))}

Assignments ==
    {Leaf(Cmd(<<Seg("X"), Seg("="), Seg("v")>>, <<>>))}

\* X=$Xw, and what it is evaluated with
Reassign == Leaf(Cmd(<<Seg("X"), Seg("="), Var("X"), Seg("w")>>, <<>>))

\* an external command with every combination of output redirections
RedirLeaves ==
    {Leaf(SCmd(Word("prog"), <<>>, in, out, err, flags)) :
        in \in {NoWord, Word("in.txt")},
        out \in {NoWord, Word("out.txt")},
        err \in {NoWord, Word("err.txt"), <<Seg("err"), Var("X")>>},
        flags \in {IO_REGULAR, IO_OUT_APPEND, IO_ERR_APPEND}}

\* cd with redirections that can be opened
CdTo(params, in, out, err) == Leaf(SCmd(Word("cd"), params, in, out, err, IO_REGULAR))

CdRedirTrees ==
    {CdTo(<<Word("/b")>>, NoWord, Word("out.txt"), NoWord),
     CdTo(<<Word("/b")>>, Word("in.txt"), NoWord, NoWord),
     CdTo(<<Word("/b")>>, Word("in.txt"), Word("out.txt"), Word("err.txt")),
     CdTo(<<Word("/nodir")>>, NoWord, NoWord, Word("err.txt")),
     CdTo(<<<<Seg("/b"), Var("X")>>>>, NoWord, Word("out.txt"), NoWord),
     Node("OP_SEQUENTIAL", CdTo(<<Word("/b")>>, NoWord, Word("out.txt"), NoWord),
                           CdTo(<<Word("/a")>>, NoWord, Word("out.txt"), NoWord)),
     Node("OP_PIPE", Leaf(Cmd(Word("true"), <<>>)),
                     CdTo(<<Word("/b")>>, Word("in.txt"), Word("out.txt"), NoWord))}

\* pipes into a program that reads its input to the end
Cat == Leaf(Cmd(Word("cat"), <<>>))

PipeTrees ==
    {Node("OP_PIPE", a, Cat) :
        a \in {Leaf(Cmd(Word("prog"), <<>>)), Cat, Leaf(Cmd(Word("true"), <<>>)),
               Leaf(Cmd(Word("exit"), <<>>))}}
    \cup {Node("OP_PIPE", Cat, Leaf(Cmd(Word("prog"), <<>>))),
          Node("OP_PIPE", Node("OP_SEQUENTIAL", Leaf(Cmd(Word("prog"), <<>>)),
                                               Leaf(Cmd(Word("true"), <<>>))), Cat),
          Node("OP_SEQUENTIAL", Node("OP_PIPE", Leaf(Cmd(Word("true"), <<>>)), Cat),
                                Node("OP_PIPE", Leaf(Cmd(Word("true"), <<>>)), Cat))}

EnvTrees ==
    {Reassign}
    \cup {Node(op, a, Reassign) : op \in {"OP_SEQUENTIAL", "OP_CONDITIONAL_ZERO"},
                                  a \in Assignments}
    \cup {Node("OP_SEQUENTIAL", Node("OP_SEQUENTIAL", a, Reassign), c) :
             a \in Assignments,
             c \in {Leaf(Cmd(Word("prog"), <<>>)),
                    Leaf(Cmd(Word("cd"), <<<<Seg("/b"), Var("X")>>>>))}}
    \cup {Node(op, Node("OP_SEQUENTIAL", a, Reassign), Reassign) :
             op \in {"OP_PARALLEL", "OP_PIPE"}, a \in Assignments}

CdCommands ==
    {Leaf(Cmd(Word("cd"), <<>>)),
     Leaf(Cmd(Word("cd"), <<Word("/b")>>)),
     Leaf(Cmd(Word("cd"), <<Word("/nodir")>>)),
     Leaf(Cmd(Word("cd"), <<Word("/deep")>>)),
     Leaf(Cmd(Word("cd"), <<Word("/b"), Word("/a")>>)),
     Leaf(Cmd(Word("cd"), <<<<Seg("/b"), Var("X")>>>>)),
     Leaf(SCmd(Word("cd"), <<Word("/b")>>, Word("none.txt"), NoWord, NoWord,
               IO_REGULAR))}

Leaves == Builtins \cup Externals \cup Assignments \cup CdCommands

\* the leaves of the trees of depth two
InnerLeaves ==
    {Leaf(Cmd(Word(v), <<>>)) : v \in {"true", "false", "exit"}}

\* quit takes the branch of exit: it is evaluated alone
PairLeaves == Leaves \ {Leaf(Cmd(Word("quit"), <<>>))}

Depth1 == {Node(op, a, b) : op \in Ops, a \in PairLeaves, b \in PairLeaves}

InnerNodes == {Node(op, a, b) : op \in Ops, a \in InnerLeaves, b \in InnerLeaves}

OuterLeaves == {Leaf(Cmd(Word(v), <<>>)) : v \in {"true", "false"}}

Depth2 ==
    {Node(op, n, c) : op \in Ops, n \in InnerNodes, c \in OuterLeaves}
    \cup {Node(op, c, n) : op \in Ops, n \in InnerNodes, c \in OuterLeaves}

\* external commands under two operators
Prog == Leaf(Cmd(Word("prog"), <<>>))

Depth2Prog ==
    {Node(op, Node(in, Prog, c), Prog) :
        op \in {"OP_SEQUENTIAL", "OP_PIPE"},
        in \in {"OP_CONDITIONAL_NZERO", "OP_CONDITIONAL_ZERO"}, c \in InnerLeaves}
    \cup {Node(op, Prog, Node(in, Prog, c)) :
        op \in {"OP_CONDITIONAL_ZERO", "OP_PARALLEL"},
        in \in {"OP_SEQUENTIAL", "OP_CONDITIONAL_NZERO"}, c \in InnerLeaves}

Trees == Leaves \cup Depth1 \cup Depth2 \cup Depth2Prog \cup EnvTrees \cup PipeTrees \cup CdRedirTrees
         \cup RedirLeaves

(***************************************************************************)
(* The specification.                                                      *)
(***************************************************************************)
Shell ==
    [Unused EXCEPT !.state = "running", !.stack = <<Frame(<<>>, "start")>>,
                   !.trace = <<Event("call", <<>>, NoRet, <<>>)>>,
                   !.fds = InitFds]

Init ==
    /\ tree \in Trees
    /\ procs = [q \in Pids |-> IF q = ShellPid THEN Shell ELSE Unused]

\* a step of the code process p runs
Step(p) ==
    \/ ParseSimpleNoCwd(p)
    \/ CdBadArgs(p)
    \/ CdRedirDies(p)
    \/ Cd(p)
    \/ ShellExit(p)
    \/ False(p)
    \/ True(p)
    \/ SetVar(p)
    \/ SimpleFork(p)
    \/ SimpleForkFails(p)
    \/ ExecRedirDies(p)
    \/ ExecFails(p)
    \/ Exec(p)
    \/ ProgramExit(p)
    \/ SimpleWait(p)
    \/ Seq1(p)
    \/ Seq2(p)
    \/ SeqReturn(p)
    \/ NZero1(p)
    \/ NZero2(p)
    \/ NZeroSkip(p)
    \/ NZeroReturn(p)
    \/ Zero1(p)
    \/ Zero2(p)
    \/ ZeroSkip(p)
    \/ ZeroReturn(p)
    \/ ParFork1(p)
    \/ ParFork1Fails(p)
    \/ ParFork2(p)
    \/ ParFork2Fails(p)
    \/ ParWait1(p)
    \/ ParWait2(p)
    \/ PipeFork1(p)
    \/ PipeFork1Fails(p)
    \/ PipeFork2(p)
    \/ PipeFork2Fails(p)
    \/ PipeWait1(p)
    \/ PipeWait2(p)

Next == \E p \in Pids : Step(p) \/ Kill(p)

Spec == Init /\ [][Next]_vars

(***************************************************************************)
(* The pipelines alone, with fairness: as long as some process can take a  *)
(* step of its code, one is taken.  (The other actions are never enabled   *)
(* on these trees.)                                                        *)
(***************************************************************************)
PipeInit ==
    /\ tree \in PipeTrees
    /\ procs = [q \in Pids |-> IF q = ShellPid THEN Shell ELSE Unused]

PipeStep(p) ==
    \/ ShellExit(p)
    \/ True(p)
    \/ SimpleFork(p)
    \/ SimpleForkFails(p)
    \/ Exec(p)
    \/ ProgramExit(p)
    \/ SimpleWait(p)
    \/ Seq1(p)
    \/ Seq2(p)
    \/ SeqReturn(p)
    \/ PipeFork1(p)
    \/ PipeFork1Fails(p)
    \/ PipeFork2(p)
    \/ PipeFork2Fails(p)
    \/ PipeWait1(p)
    \/ PipeWait2(p)

PipeNext == \E p \in Pids : PipeStep(p) \/ Kill(p)

PipeSpec == PipeInit /\ [][PipeNext]_vars /\ WF_vars(\E p \in Pids : PipeStep(p))

(***************************************************************************)
(* What the traces of the processes say.                                   *)
(***************************************************************************)
Started == {p \in Pids : procs[p].state # "unused"}

\* the places of trace tr where parse_command was entered on, returned from,
\* the node at path
Calls(tr, path) == {i \in DOMAIN tr : tr[i].ev = "call" /\ tr[i].path = path}
Rets(tr, path) == {i \in DOMAIN tr : tr[i].ev = "ret" /\ tr[i].path = path}

\* the value the node at path returned (it returned once)
Val(tr, path) == tr[CHOOSE i \in Rets(tr, path) : TRUE].val

\* the paths of the nodes of the tree with operator op
NodesOf(op) == {path \in Paths(tree) : Sub(tree, path).op = op}

\* the leaves that are external commands
ExternalLeaves ==
    {path \in NodesOf("OP_NONE") : Classify(Sub(tree, path).scmd) = "external"}

\* the returns of process p from a node among paths
RetEvents(p, paths) ==
    {i \in DOMAIN procs[p].trace :
        procs[p].trace[i].ev = "ret" /\ procs[p].trace[i].path \in paths}

(***************************************************************************)
(* Claims.                                                                 *)
(***************************************************************************)

\* C1: whenever parse_command returns from an OP_SEQUENTIAL node, the value
\* it returns is the value parse_command(cmd2) returned just before,
\* whatever cmd1 returned.
C1_SequentialReturnsCmd2 ==
    \A p \in Started : \A path \in NodesOf("OP_SEQUENTIAL") :
        \A i \in Rets(procs[p].trace, path) :
            /\ Rets(procs[p].trace, SecondChild(path)) # {}
            /\ procs[p].trace[i].val = Val(procs[p].trace, SecondChild(path))

\* C2: whenever parse_simple returns after waiting for the child it forked
\* for an external command, and that child ended through exit, the value
\* returned is success exactly when the child's exit code is 0.
C2_SuccessIffExitCodeZero ==
    \A p \in Started : \A i \in RetEvents(p, ExternalLeaves) :
        LET e == procs[p].trace[i]
        IN (e.kids # <<>> /\ procs[e.kids[1]].state = "exited") =>
              (e.val = 1 <=> procs[e.kids[1]].code = 0)

\* C3: whenever parse_simple returns after waiting for a child of an
\* external command that a signal ended, the value returned is failure.
C3_SignaledChildIsFailure ==
    \A p \in Started : \A i \in RetEvents(p, ExternalLeaves) :
        LET e == procs[p].trace[i]
        IN (e.kids # <<>> /\ procs[e.kids[1]].state = "signaled") => e.val = 0

\* C4: a child whose execvp fails ends at once, never having entered
\* parse_command, and the parent's parse_simple returns failure for it.
C4_ExecFailureIsFailure ==
    /\ \A c \in Started :
          procs[c].at = "execvp" => procs[c].state = "exited" /\ procs[c].trace = <<>>
    /\ \A p \in Started : \A i \in RetEvents(p, ExternalLeaves) :
          LET e == procs[p].trace[i]
          IN (e.kids # <<>> /\ procs[e.kids[1]].at = "execvp") => e.val = 0

\* cmd2 of the conditional node at path ran in trace tr if and only if cmd1
\* returned skip's opposite, after cmd1 returned, and the node returned what
\* cmd2 returned when cmd2 ran and what cmd1 returned when it did not
CondHolds(tr, path, skip) ==
    LET c1 == FirstChild(path)
        c2 == SecondChild(path)
    IN /\ \A k \in Calls(tr, c2) :
             \E j \in Rets(tr, c1) : j < k /\ tr[j].val # skip
       /\ \A j \in Rets(tr, c1) : \E k \in Calls(tr, c1) : k < j
       /\ \A i \in Rets(tr, path) :
             /\ \E j \in Rets(tr, c1) : j < i
             /\ (Calls(tr, c2) # {}) <=> (Val(tr, c1) # skip)
             /\ tr[i].val = IF Calls(tr, c2) # {} THEN Val(tr, c2) ELSE Val(tr, c1)
             /\ Calls(tr, c2) # {} => \E j \in Rets(tr, c2) : j < i

\* C5: in every process, cmd2 of an OP_CONDITIONAL_NZERO node is evaluated
\* if and only if cmd1 returned failure, cmd2 of an OP_CONDITIONAL_ZERO node
\* if and only if cmd1 returned success, only after cmd1 returned; the node
\* returns cmd2's value when cmd2 ran and cmd1's value when it was skipped.
C5_ConditionalGating ==
    \A p \in Started :
        /\ \A path \in NodesOf("OP_CONDITIONAL_NZERO") :
              CondHolds(procs[p].trace, path, 1)
        /\ \A path \in NodesOf("OP_CONDITIONAL_ZERO") :
              CondHolds(procs[p].trace, path, 0)

\* an OP_CONDITIONAL_NZERO node returned after running cmd2 and an
\* OP_CONDITIONAL_ZERO node returned after skipping it (false || x, then
\* false && y)
C5_Witness ==
    \E p \in Started :
        /\ \E path \in NodesOf("OP_CONDITIONAL_NZERO") :
              /\ Rets(procs[p].trace, path) # {}
              /\ Calls(procs[p].trace, SecondChild(path)) # {}
        /\ \E path \in NodesOf("OP_CONDITIONAL_ZERO") :
              /\ Rets(procs[p].trace, path) # {}
              /\ Calls(procs[p].trace, SecondChild(path)) = {}

\* process p is done with its tree: it returned from the root, or ended by
\* calling exit
Finished(p) ==
    \/ procs[p].state = "running" /\ procs[p].stack = <<>> /\ procs[p].ret # NoRet
    \/ procs[p].state = "exited" /\ procs[p].at \in {"child_exit", "shell_exit"}

\* C6 as stated: a process that entered an OP_SEQUENTIAL node and is done
\* has evaluated cmd1 exactly once and cmd2 exactly once, cmd2 after cmd1
\* returned.
C6_BothChildrenAlwaysRun ==
    \A p \in Started : \A path \in NodesOf("OP_SEQUENTIAL") :
        LET tr == procs[p].trace
        IN (Finished(p) /\ Calls(tr, path) # {}) =>
              /\ Cardinality(Calls(tr, FirstChild(path))) = 1
              /\ Cardinality(Calls(tr, SecondChild(path))) = 1
              /\ \A k \in Calls(tr, SecondChild(path)) :
                    \E j \in Rets(tr, FirstChild(path)) : j < k

\* C6 amended: in every process, cmd1 and cmd2 of an OP_SEQUENTIAL node are
\* each evaluated at most once, cmd2 only after cmd1 returned; cmd1 is
\* evaluated as soon as the node is entered, cmd2 as soon as cmd1 has
\* returned, whatever it returned; and when the node returns each has been
\* evaluated exactly once and has returned.
C6_SequentialOrder ==
    \A p \in Started : \A path \in NodesOf("OP_SEQUENTIAL") :
        LET tr == procs[p].trace
            c1 == FirstChild(path)
            c2 == SecondChild(path)
        IN /\ Cardinality(Calls(tr, c1)) <= 1
           /\ Cardinality(Calls(tr, c2)) <= 1
           /\ \A k \in Calls(tr, c1) : \E i \in Calls(tr, path) : k = i + 1
           /\ \A k \in Calls(tr, c2) : \E j \in Rets(tr, c1) : j < k
           /\ \A j \in Rets(tr, c1) :
                 \/ \E k \in Calls(tr, c2) : k = j + 1
                 \/ j = Len(tr) /\ (procs[p].state = "signaled" \/ Returned(p, "seq1"))
           /\ \A i \in Rets(tr, path) :
                 /\ Cardinality(Calls(tr, c1)) = 1
                 /\ Cardinality(Calls(tr, c2)) = 1
                 /\ \E j \in Rets(tr, c1) : j < i
                 /\ \E j \in Rets(tr, c2) : j < i

\* an OP_SEQUENTIAL node returned although cmd1 returned failure
C6_Witness ==
    \E p \in Started : \E path \in NodesOf("OP_SEQUENTIAL") :
        /\ Rets(procs[p].trace, path) # {}
        /\ Val(procs[p].trace, FirstChild(path)) = 0
        /\ Val(procs[p].trace, SecondChild(path)) = 1

\* C7: whenever run_on_pipe returns, the value is success exactly when both
\* children were forked and parse_command(cmd2) returned success in the
\* second child; nothing about the first child enters.
C7_PipeOutcomeIsCmd2 ==
    \A p \in Started : \A i \in RetEvents(p, NodesOf("OP_PIPE")) :
        LET e == procs[p].trace[i]
        IN e.val = 1 <=>
              /\ Len(e.kids) = 2
              /\ \E j \in Rets(procs[e.kids[2]].trace, SecondChild(e.path)) :
                    procs[e.kids[2]].trace[j].val = 1

C9_ParallelWaitsForBoth ==
    /\ \A p \in Started : \A i \in RetEvents(p, NodesOf("OP_PARALLEL")) :
          LET e == procs[p].trace[i]
          IN Len(e.kids) = 2 =>
                \A k \in 1 .. 2 : /\ procs[e.kids[k]].state \in Dead
                                  /\ procs[e.kids[k]].waited
                                  /\ procs[e.kids[k]].ppid = p
    /\ \A p \in Started :
          /\ At(p, "par_wait1") => /\ ~procs[Top(p).pidFirst].waited
                                   /\ ~procs[Top(p).pidSecond].waited
          /\ At(p, "par_wait2") => /\ procs[Top(p).pidFirst].waited
                                   /\ procs[Top(p).pidFirst].state \in Dead
                                   /\ ~procs[Top(p).pidSecond].waited
    /\ \A c \in Started : procs[c].waited => procs[c].state \in Dead

\* run_in_parallel returned after waiting for a first child that exited and
\* a second child that a signal ended
C9_Witness ==
    \E p \in Started : \E i \in RetEvents(p, NodesOf("OP_PARALLEL")) :
        LET e == procs[p].trace[i]
        IN /\ Len(e.kids) = 2
           /\ procs[e.kids[1]].state = "exited"
           /\ procs[e.kids[2]].state = "signaled"

\* process p evaluates a cd command in this step, and no redirection of the
\* command ends the process
CdStep(p) ==
    /\ At(p, "start")
    /\ NodeAt(p).op = "OP_NONE"
    /\ Head(NodeAt(p).scmd.verb).string = "cd"
    /\ procs'[p] # procs[p]
    /\ procs'[p].state # "signaled"
    /\ procs'[p].at # "DIE"

\* the step of process p returned v from parse_simple
StepReturned(p, v) ==
    LET tr == procs'[p].trace
    IN /\ Len(tr) = Len(procs[p].trace) + 1
       /\ tr[Len(tr)].ev = "ret"
       /\ tr[Len(tr)].val = v

\* C10: a cd with no parameter or with two or more never changes the
\* working directory and returns failure; a cd with exactly one parameter
\* that names a valid directory changes to it and returns success (stated
\* for a parameter that is the literal name of the directory).
C10_CdArity ==
    [][\A p \in Pids : CdStep(p) =>
          LET s == NodeAt(p).scmd
              n == Len(s.params)
          IN /\ (n = 0 \/ n >= 2) =>
                   (procs'[p].cwd = procs[p].cwd /\ StepReturned(p, 0))
             /\ \A d \in Dirs :
                   (n = 1 /\ Head(s.params) = Word(d)) =>
                      (procs'[p].cwd = d /\ StepReturned(p, 1))]_vars

\* C11: a redirection target that cannot be opened never ends the shell
\* process: only forked children end in doRedirection's DIE, and the parent
\* of an external command whose child ended there gets failure.
C11_RedirectFailureSparesShell ==
    /\ procs[ShellPid].at # "DIE"
    /\ \A p \in Started : \A i \in RetEvents(p, ExternalLeaves) :
          LET e == procs[p].trace[i]
          IN (e.kids # <<>> /\ procs[e.kids[1]].at = "DIE") => e.val = 0

\* the leaves whose verb is exit or quit
ExitLeaves ==
    {path \in NodesOf("OP_NONE") :
        Head(Sub(tree, path).scmd.verb).string \in {"exit", "quit"}}

\* what a process that has evaluated an exit or quit leaf looks like: the
\* entry into the leaf is the last thing it did, it has ended with status 0
\* (or a signal ended it first), and no parse_command of it has returned
\* since
ExitLeafEnds(p, path) ==
    LET tr == procs[p].trace
    IN /\ Rets(tr, path) = {}
       /\ \A i \in Calls(tr, path) :
             /\ i = Len(tr)
             /\ procs[p].state = "running" => (At(p, "start") /\ Top(p).path = path)
             /\ procs[p].state = "exited" =>
                   /\ procs[p].at = "shell_exit"
                   /\ procs[p].code = 0
                   /\ procs[p].stack = <<>>
                   /\ procs[p].ret = NoRet

AssignStep(p) ==
    /\ At(p, "start")
    /\ NodeAt(p).op = "OP_NONE"
    /\ Len(NodeAt(p).scmd.verb) >= 3
    /\ NodeAt(p).scmd.verb[2] = Seg("=")
    /\ procs'[p] # procs[p]
    /\ procs'[p].state # "signaled"

\* the step of p set NAME to the resolved VALUE and nothing else, returned
\* success and forked nothing
Assigned(p) ==
    LET verb == NodeAt(p).scmd.verb
        name == Head(verb).string
        value == get_word(SubSeq(verb, 3, Len(verb)), procs[p].env)
    IN /\ name \in DOMAIN procs'[p].env
       /\ procs'[p].env[name] = value
       /\ \A v \in DOMAIN procs[p].env \ {name} :
             v \in DOMAIN procs'[p].env /\ procs'[p].env[v] = procs[p].env[v]
       /\ StepReturned(p, 1)
       /\ \A q \in Pids : procs[q].state = "unused" => procs'[q].state = "unused"

\* a binding lasts: no other step of a process changes its environment, and
\* a process forked in this step starts with the environment of its parent
BindingsLast ==
    /\ \A p \in Started : ~AssignStep(p) => procs'[p].env = procs[p].env
    /\ \A c \in Pids :
          (procs[c].state = "unused" /\ procs'[c].state # "unused") =>
              procs'[c].env = procs[procs'[c].ppid].env

InForkNode(p) ==
    /\ procs[p].state = "running"
    /\ procs[p].stack # <<>>
    /\ NodeAt(p).op \in {"OP_PARALLEL", "OP_PIPE"}

\* process p ends in this step otherwise than by a signal or by the exit
\* that follows the return of the node it is on
EndsInNode(p) ==
    /\ procs'[p].state = "exited"
    /\ ~ /\ procs'[p].at = "child_exit"
         /\ Len(procs'[p].trace) = Len(procs[p].trace) + 1
         /\ procs'[p].trace[Len(procs'[p].trace)].ev = "ret"
         /\ procs'[p].trace[Len(procs'[p].trace)].path = Top(p).path

Unaccounted(p) ==
    {c \in Started : procs[c].ppid = p}
    \ (UNION {{procs[p].trace[i].kids[k] : k \in DOMAIN procs[p].trace[i].kids} :
                 i \in DOMAIN procs[p].trace}
       \cup {procs[p].stack[i].pidFirst : i \in DOMAIN procs[p].stack}
       \cup {procs[p].stack[i].pidSecond : i \in DOMAIN procs[p].stack})

\* C17: a PARALLEL or PIPE node that returns with fewer than two children
\* forked (a fork failed), and an external command that returns with no
\* child forked, return failure; the return is the step after the entry
\* into the node, no subtree of the node was entered in the parent, and the
\* node forked no process beyond the ones it names (no fork was retried).
C17_ForkFailure ==
    \A p \in Started :
        /\ \A i \in RetEvents(p, NodesOf("OP_PARALLEL") \cup NodesOf("OP_PIPE")
                                    \cup ExternalLeaves) :
              LET tr == procs[p].trace
                  e == tr[i]
                  forks == IF e.path \in ExternalLeaves THEN 1 ELSE 2
              IN Len(e.kids) < forks =>
                    /\ e.val = 0
                    /\ tr[i - 1] = Event("call", e.path, NoRet, <<>>)
                    /\ Calls(tr, FirstChild(e.path)) = {}
                    /\ Calls(tr, SecondChild(e.path)) = {}
        /\ procs[p].state \in Alive => Unaccounted(p) = {}

\* the second fork of a PARALLEL node and the first fork of a PIPE node
\* failed: the PARALLEL node returned with one child, the PIPE node with none
C17_Witness ==
    \E p, q \in Started :
        /\ \E i \in RetEvents(p, NodesOf("OP_PARALLEL")) :
              Len(procs[p].trace[i].kids) = 1
        /\ \E i \in RetEvents(q, NodesOf("OP_PIPE")) :
              Len(procs[q].trace[i].kids) = 0

\* C19: whenever a leaf, a PARALLEL node or a PIPE node returns in the
\* process that evaluates it, every child the node forked has ended and has
\* been waited for.
C19_ChildrenReaped ==
    \A p \in Started :
        \A i \in RetEvents(p, NodesOf("OP_NONE") \cup NodesOf("OP_PARALLEL")
                                 \cup NodesOf("OP_PIPE")) :
            \A k \in DOMAIN procs[p].trace[i].kids :
                LET c == procs[p].trace[i].kids[k]
                IN procs[c].state \in Dead /\ procs[c].waited

\* process q is process a or descends from it
RECURSIVE DescendsFrom(_, _)
DescendsFrom(q, a) ==
    IF q = a THEN TRUE
    ELSE IF procs[q].ppid = NoPid THEN FALSE
    ELSE DescendsFrom(procs[q].ppid, a)

\* process q holds end ("r" or "w") of the pipe of the node at path
Holds(q, path, end) ==
    \E fd \in OpenFds(procs[q].fds) : Desc(procs[q].fds, fd) = PipeEnd(path, end)

\* process p waits in run_on_pipe
PipeWaits(p) == At(p, "pipe_wait1") \/ At(p, "pipe_wait2")

\* while the parent p of a PIPE node waits: p holds no end of the pipe; the
\* first child, while it runs, holds the write end and not the read end;
\* the second child, while it runs, holds the read end and not the write
\* end; and only the first child and its descendants hold a write end
PipeEndsHeld ==
    \A p \in Started : PipeWaits(p) =>
        LET path == Top(p).path
            a == Top(p).pidFirst
            b == Top(p).pidSecond
        IN /\ ~Holds(p, path, "r") /\ ~Holds(p, path, "w")
           /\ procs[a].state \in Alive =>
                 (Holds(a, path, "w") /\ ~Holds(a, path, "r"))
           /\ procs[b].state \in Alive =>
                 (Holds(b, path, "r") /\ ~Holds(b, path, "w"))
           /\ \A q \in Writers(procs, path) : DescendsFrom(q, a)

\* C14: while the parent of a PIPE node waits the pipe ends are held as
\* PipeEndsHeld says, and, programs ending once they can (a reader once its
\* input is at end-of-file), every wait of run_on_pipe comes to an end: no
\* reader hangs and no process stays in run_on_pipe for ever.
C14_PipeReturns ==
    /\ []PipeEndsHeld
    /\ \A p \in Pids : PipeWaits(p) ~> ~PipeWaits(p)
    /\ <>[](\A c \in Pids : procs[c].image \in Readers => procs[c].state \in Dead)

\* `prog | cat` returned in the shell: cat, reading the pipe, ended through
\* exit after prog did, and both were waited for
C14_Witness ==
    \E i \in RetEvents(ShellPid, NodesOf("OP_PIPE")) :
        LET e == procs[ShellPid].trace[i]
        IN /\ Len(e.kids) = 2
           /\ \E b \in Started :
                 /\ procs[b].ppid = e.kids[2]
                 /\ procs[b].image \in Readers
                 /\ procs[b].state = "exited"
                 /\ Desc(procs[b].fds, STDIN_FILENO) = PipeEnd(e.path, "r")

\* the number of redirections simple command s declares
Declared(s) ==
    (IF s.in # NoWord THEN 1 ELSE 0) + (IF s.out # NoWord THEN 1 ELSE 0)
    + (IF s.err # NoWord THEN 1 ELSE 0)

\* what the step of process p added to its log of open and chdir calls
NewLog(p) == SubSeq(procs'[p].io, Len(procs[p].io) + 1, Len(procs'[p].io))

\* the cd step of p opened every declared target in the directory p was in
\* before the step, attempted the directory change after that, and left
\* the descriptor table as it was: the standard descriptors refer to what
\* they referred to and nothing else is open that was not
CdRedirected(p) ==
    LET n == Declared(NodeAt(p).scmd)
    IN /\ Len(NewLog(p)) = n + 1
       /\ \A i \in 1 .. n : /\ NewLog(p)[i].kind = "file"
                            /\ NewLog(p)[i].of[1] = procs[p].cwd
       /\ NewLog(p)[n + 1].kind = "chdir"
       /\ procs'[p].fds = procs[p].fds

\* process p evaluates, in this step, a cd with exactly one parameter and
\* at least one redirection, all of which can be opened, in a directory
\* that getcwd obtains
CdRedirStep(p) ==
    /\ CdStep(p)
    /\ Len(NodeAt(p).scmd.params) = 1
    /\ Declared(NodeAt(p).scmd) >= 1
    /\ ~GetcwdFails(procs[p].cwd)

\* C15: every cd with exactly one parameter and redirections that can all
\* be opened applies them against the directory captured before the change,
\* restores the standard descriptors, closes the saved duplicates and only
\* then attempts the directory change.
C15_CdRedirections ==
    [][\A p \in Pids : CdRedirStep(p) => CdRedirected(p)]_vars

\* the same for a cd whose one parameter is a single word segment, the only
\* kind the arity test of parse_simple lets through
CdRedirectionsOfAccepted ==
    [][\A p \in Pids :
          (CdRedirStep(p) /\ Len(Head(NodeAt(p).scmd.params)) = 1)
             => CdRedirected(p)]_vars

\* process c, the child of an external command, gets through doRedirection
\* and becomes the program in this step
ExecStep(c) == At(c, "exec") /\ procs'[c].state = "program"

\* the file a step of doRedirection in process c opened for target word w
Target(c, w, flags) ==
    File(procs[c].cwd, <<Head(w).string>> \o get_word(Tail(w), procs[c].env), flags)

\* descriptor fd of c refers, after the step, to the file of word w opened
\* with flags, and the step opened that file
OpenedOnto(c, w, flags, fd) ==
    /\ Desc(procs'[c].fds, fd) = Target(c, w, flags)
    /\ \E i \in DOMAIN NewLog(c) : NewLog(c)[i] = Target(c, w, flags)

\* C18: in a child that gets through doRedirection, with both out and err
\* set stdout is the out file opened for append and stderr the err file
\* opened with truncation, whatever io_flags; with only out set stdout is
\* the out file, truncated for IO_REGULAR and appended to for IO_OUT_APPEND;
\* with only err set stderr is the err file, truncated for IO_REGULAR and
\* appended to for IO_ERR_APPEND.
C18_OpenModes ==
    [][\A c \in Pids : ExecStep(c) =>
          LET s == NodeAt(c).scmd
          IN /\ (s.out # NoWord /\ s.err # NoWord) =>
                   /\ OpenedOnto(c, s.out, "O_APPEND", STDOUT_FILENO)
                   /\ OpenedOnto(c, s.err, "O_TRUNC", STDERR_FILENO)
             /\ (s.out # NoWord /\ s.err = NoWord) =>
                   /\ s.io_flags = IO_REGULAR =>
                         OpenedOnto(c, s.out, "O_TRUNC", STDOUT_FILENO)
                   /\ s.io_flags = IO_OUT_APPEND =>
                         OpenedOnto(c, s.out, "O_APPEND", STDOUT_FILENO)
             /\ (s.out = NoWord /\ s.err # NoWord) =>
                   /\ s.io_flags = IO_REGULAR =>
                         OpenedOnto(c, s.err, "O_TRUNC", STDERR_FILENO)
                   /\ s.io_flags = IO_ERR_APPEND =>
                         OpenedOnto(c, s.err, "O_APPEND", STDERR_FILENO)]_vars

\* the program of `prog > out.txt 2> err.txt` (io_flags IO_REGULAR) runs
\* with out.txt opened for append as stdout and err.txt truncated as stderr
C18_Witness ==
    /\ tree.op = "OP_NONE"
    /\ tree.scmd.io_flags = IO_REGULAR
    /\ \E c \in Started :
          /\ procs[c].state = "program"
          /\ Desc(procs[c].fds, STDOUT_FILENO) = File("/a", <<"out.txt">>, "O_APPEND")
          /\ Desc(procs[c].fds, STDERR_FILENO) = File("/a", <<"err.txt">>, "O_TRUNC")

\* run_on_pipe returns in process p in this step
PipeReturns(p) ==
    /\ procs[p].state = "running"
    /\ procs[p].stack # <<>>
    /\ NodeAt(p).op = "OP_PIPE"
    /\ Len(procs'[p].trace) = Len(procs[p].trace) + 1
    /\ procs'[p].trace[Len(procs'[p].trace)].ev = "ret"
    /\ procs'[p].trace[Len(procs'[p].trace)].path = Top(p).path

\* the descriptor table process p had when it entered run_on_pipe
TableAtEntry(p) == IF At(p, "start") THEN procs[p].fds ELSE Top(p).entry

\* C20: whenever run_on_pipe returns, the descriptor table of the process
\* is the one it had when run_on_pipe was entered: neither pipe end and none
\* of the three saved duplicates is left open.
C20_PipeLeavesNoDescriptor ==
    [][\A p \in Pids : PipeReturns(p) =>
          procs'[p].fds = TableAtEntry(p)]_vars

\* the same when both forks succeeded
PipeRestoresAfterBothForks ==
    [][\A p \in Pids : (PipeReturns(p) /\ At(p, "pipe_wait2")) =>
          procs'[p].fds = TableAtEntry(p)]_vars

====
